---- MODULE Spec2Model ----
(***************************************************************************)
(* Model of the batch_disclosure extraction pipeline:                      *)
(*   extractors/base_extractor.py   BaseExtractor (_ask_llm, JSON helpers, *)
(*                                  run)                                   *)
(*   extractors/asx_annual.py, asx_quarterly.py, asx_investor.py,          *)
(*   extractors/sec_10q.py          the four extract() pipelines           *)
(*   utils/llm.py                   _retry_call                            *)
(*   models/catalyst_disclosure.py  CatalystDisclosure validation          *)
(*   extractors/registry.py, pipeline/dispatcher.py, run_pipeline.py       *)
(***************************************************************************)
EXTENDS Integers, Sequences, FiniteSets, TLC

VARIABLES
    pc,          \* position of the modelled call (extract / run / dispatch / process_file)
    extractor,   \* which extractor class is running
    readable,    \* whether the segmenter can read and parse the document
    metadata,    \* the metadata dict handed to extract()
    candidates,  \* prefilter output: the ordered candidate sentences
    batches,     \* the list of batches built from candidates
    batch_num,   \* enumerate(batches, start=1) index of the batch in progress
    attempt,     \* loop variable i of _retry_call
    resp,        \* text returned by _ask_llm for the batch in progress
    items,       \* items parsed from resp (after "or []")
    results,     \* results / parsed_all: the records accumulated so far
    global_idx,  \* the running sentence counter
    exc,         \* exception propagating out of the modelled call, or "none"
    run_result,  \* value returned by BaseExtractor.run (None before it returns)
    file_path,   \* the path handed to extract()
    cur_item,    \* the loop variable of "for item in items"
    exchange,    \* process_file / get_extractor_instance argument
    filing_type, \* process_file / get_extractor_instance argument
    api_key,     \* OPENAI_API_KEY in the environment: unset, empty or set
    file_url,    \* process_file argument: a local path or a URL
    fs,          \* the files that exist on disk
    tmp_path,    \* the path download_local_file returned (None before)
    persisted,   \* the result files / database rows written so far
    pf_return,   \* the dict process_file returned (None before)
    elems,       \* the layout elements partition_pdf returned
    sections,    \* the section list of the segmenter
    retries      \* the retries argument of _retry_call

pipeline_vars == <<exchange, filing_type, api_key, file_url, fs, tmp_path,
                   persisted, pf_return>>

doc_vars == <<elems, sections>>

vars == <<pc, extractor, readable, metadata, candidates, batches, batch_num,
          attempt, resp, items, results, global_idx, exc, run_result, file_path,
          cur_item, pipeline_vars, doc_vars, retries>>

(***************************************************************************)
(* Bounds of the model.                                                    *)
(***************************************************************************)
\* largest candidate count of a document in the batching specification
MaxN == 112
\* largest candidate count of a document in the extraction specification
MaxCand == 11
\* longest item list a model response carries
MaxItems == 2
\* longest arbitrary (mostly malformed) response text
MaxTextLen == 3

\* largest candidate count of a document whose sentences the model echoes back
MaxEcho == 12
\* most words in a raw forecast_type string
MaxWords == 3

Extractors == {"annual", "quarterly", "investor", "sec_10q"}

None == "<None>"

(***************************************************************************)
(* Generic sequence helpers.                                               *)
(***************************************************************************)
RECURSIVE Flatten(_)
Flatten(ss) == IF ss = <<>> THEN <<>> ELSE Head(ss) \o Flatten(Tail(ss))

Min(a, b) == IF a <= b THEN a ELSE b
Max(a, b) == IF a >= b THEN a ELSE b

\* Python slice s[lo:hi] on 0-based indices, clamped like Python does
Slice(s, lo, hi) ==
    LET h == Min(hi, Len(s))
    IN  IF lo >= h THEN <<>> ELSE SubSeq(s, lo + 1, h)

(***************************************************************************)
(* Adaptive batcher (annual, quarterly, 10-Q share one step table; the     *)
(* investor extractor has its own two-way split).                          *)
(***************************************************************************)
\* a plausible slip: the first threshold written n < 10 instead of n <= 10
NumBatchesStrict(n) ==
    IF n < 10 THEN 1
    ELSE IF n < 30 THEN 2
    ELSE IF n < 50 THEN 3
    ELSE IF n < 70 THEN 5
    ELSE IF n < 80 THEN 6
    ELSE IF n < 90 THEN 7
    ELSE IF n < 100 THEN 8
    ELSE 9

\* the if/elif chain choosing num_batches
NumBatches(n) ==
    IF n <= 10 THEN 1
    ELSE IF n < 30 THEN 2
    ELSE IF n < 50 THEN 3
    ELSE IF n < 70 THEN 5
    ELSE IF n < 80 THEN 6
    ELSE IF n < 90 THEN 7
    ELSE IF n < 100 THEN 8
    ELSE 9

\* a plausible slip: floor division instead of ceil division
BatchSizeFloor(n, num_batches) == Max(1, n \div num_batches)

\* batch_size = max(1, (n + num_batches - 1) // num_batches)
BatchSize(n, num_batches) == Max(1, (n + num_batches - 1) \div num_batches)

\* [candidates[i:i + batch_size] for i in range(0, n, batch_size)]
SliceAll(cands, batch_size) ==
    LET n == Len(cands)
        count == (n + batch_size - 1) \div batch_size
    IN  [k \in 1..count |->
            Slice(cands, (k - 1) * batch_size, (k - 1) * batch_size + batch_size)]

\* batches = batches[:num_batches]
Truncate(bs, num_batches) == Slice(bs, 0, num_batches)

\* the step-table batching of the annual, quarterly and 10-Q extractors
StepBatches(cands) ==
    LET n == Len(cands)
        num_batches == NumBatches(n)
        batch_size == BatchSize(n, num_batches)
    IN  Truncate(SliceAll(cands, batch_size), num_batches)

\* the investor extractor: one batch up to 10, else two halves
InvestorBatches(cands) ==
    LET n == Len(cands)
        first_batch == (n + 1) \div 2
    IN  IF n <= 10 THEN <<cands>>
        ELSE <<Slice(cands, 0, first_batch), Slice(cands, first_batch, n)>>

MakeBatches(ex, cands) ==
    IF ex = "investor" THEN InvestorBatches(cands) ELSE StepBatches(cands)

(***************************************************************************)
(* Strings whose letter case or substrings the code inspects are modelled  *)
(* as sequences of one-character strings, so that upper(), lower() and     *)
(* "x in s" are computed, not assumed.                                     *)
(***************************************************************************)
\* the characters of a string literal, as a sequence
Chars(str) == [i \in 1..Len(str) |-> SubSeq(str, i, i)]

LowerLetters == <<"a", "b", "c", "d", "e", "f", "g", "h", "i", "j", "k", "l", "m", "n", "o", "p", "q", "r", "s", "t", "u", "v", "w", "x", "y", "z">>
UpperLetters == <<"A", "B", "C", "D", "E", "F", "G", "H", "I", "J", "K", "L", "M", "N", "O", "P", "Q", "R", "S", "T", "U", "V", "W", "X", "Y", "Z">>

\* str.upper() on one character
UpperChar(c) ==
    IF \E i \in 1..Len(LowerLetters) : LowerLetters[i] = c
    THEN UpperLetters[CHOOSE i \in 1..Len(LowerLetters) : LowerLetters[i] = c]
    ELSE c

\* str.lower() on one character
LowerChar(c) ==
    IF \E i \in 1..Len(UpperLetters) : UpperLetters[i] = c
    THEN LowerLetters[CHOOSE i \in 1..Len(UpperLetters) : UpperLetters[i] = c]
    ELSE c

Upper(s) == [i \in 1..Len(s) |-> UpperChar(s[i])]
Lower(s) == [i \in 1..Len(s) |-> LowerChar(s[i])]

\* Python's "sub in s"
Contains(s, sub) ==
    \E i \in 0..(Len(s) - Len(sub)) : SubSeq(s, i + 1, i + Len(sub)) = sub


(***************************************************************************)
(* models/enums.py FilingType, extractors/registry.py, and                 *)
(* pipeline/dispatcher.py.                                                 *)
(***************************************************************************)
\* FilingType member values (a str-Enum member compares equal to its value)
FT_ASX_ANNUAL == <<"a", "n", "n", "u", "a", "l">>
FT_ASX_QUARTERLY == <<"q", "u", "a", "r", "t", "e", "r", "l", "y">>
FT_ASX_INVESTOR == <<"i", "n", "v", "e", "s", "t", "o", "r">>
FT_SEC_10Q == <<"S", "E", "C", "_", "1", "0", "Q">>

S_ASX == <<"A", "S", "X">>
S_SEC == <<"S", "E", "C">>

\* the dict "mapping" of get_extractor_instance, as key/value pairs
mapping ==
    { <<Chars("ANNUAL"), Chars("annual")>>, <<Chars("ASX_ANNUAL"), Chars("annual")>>,
      <<Chars("QUARTERLY"), Chars("quarterly")>>, <<Chars("ASX_QUARTERLY"), Chars("quarterly")>>,
      <<Chars("INVESTOR_PRESENTATION"), Chars("investor")>>, <<Chars("INVESTOR"), Chars("investor")>>,
      <<Chars("10-Q"), Chars("10-Q")>>, <<Chars("10Q"), Chars("10-Q")>> }

MappingKeys == { kv[1] : kv \in mapping }

\* mapping.get(key, default)
MappingGet(key, default) ==
    IF key \in MappingKeys
    THEN (CHOOSE kv \in mapping : kv[1] = key)[2]
    ELSE default

\* EXTRACTOR_REGISTRY: (exchange, FilingType) -> extractor class
EXTRACTOR_REGISTRY ==
    { <<S_ASX, FT_ASX_ANNUAL, "annual">>,
      <<S_ASX, FT_ASX_QUARTERLY, "quarterly">>,
      <<S_ASX, FT_ASX_INVESTOR, "investor">>,
      <<S_SEC, FT_SEC_10Q, "sec_10q">> }

RegistryHas(e, ft) == \E r \in EXTRACTOR_REGISTRY : r[1] = e /\ r[2] = ft

\* utils.llm.get_llm: what it raises for each state of OPENAI_API_KEY.
\* "unset": os.environ[...] = None raises TypeError before the check;
\* "empty": the check raises RuntimeError; "set": the client is built.
get_llm(key_set) ==
    IF key_set = "unset" THEN "TypeError"
    ELSE IF key_set = "empty" THEN "RuntimeError"
    ELSE "none"

\* a plausible slip: an unregistered key falls back to a default class
get_extractor_fallback(e, ft, key_set) ==
    LET key_e == Upper(e)
    IN  IF key_set # "set"
        THEN [raised |-> get_llm(key_set), cls |-> None]
        ELSE IF ~RegistryHas(key_e, ft)
        THEN [raised |-> "none", cls |-> "annual"]
        ELSE [raised |-> "none",
              cls |-> (CHOOSE r \in EXTRACTOR_REGISTRY :
                          r[1] = key_e /\ r[2] = ft)[3]]

\* registry.get_extractor: KeyError for an unregistered key, else the class
\* is instantiated (BaseExtractor.__init__ calls get_llm)
get_extractor(e, ft, key_set) ==
    LET key_e == Upper(e)
    IN  IF ~RegistryHas(key_e, ft)
        THEN [raised |-> "KeyError", cls |-> None]
        ELSE IF get_llm(key_set) # "none"
        THEN [raised |-> get_llm(key_set), cls |-> None]
        ELSE [raised |-> "none",
              cls |-> (CHOOSE r \in EXTRACTOR_REGISTRY :
                          r[1] = key_e /\ r[2] = ft)[3]]

\* pipeline.dispatcher.get_extractor_instance
get_extractor_instance(ex, ft, key_set) ==
    LET e == Upper(ex)
        ft_key == MappingGet(Upper(ft), ft)
    IN  get_extractor(e, ft_key, key_set)

(***************************************************************************)
(* Model responses are token sequences.  The tokens are the two code      *)
(* fences, " " for any whitespace run, "[", "]", "{", "}", ",", "1" for a  *)
(* JSON scalar literal, "x" for prose that is not JSON, and one token per  *)
(* member list of an object of the item pool: "a", "b", "c".               *)
(***************************************************************************)
\* the opening code fence (three backticks followed by json, any letter case)
FENCE_OPEN == "<fence-json>"
\* the closing code fence (three backticks)
FENCE_CLOSE == "<fence>"
WS == " "

\* member-list tokens: each stands for the "key": value pairs of one object
Atoms == {"a", "b", "c"}

\* the text of candidate sentence i
CandidateText(i) == "sentence " \o ToString(i)

\* member-list token of the object that echoes candidate i back as kept:
\* "text": <sentence i>, "impact": "MED", "tone": "neutral",
\* "forecast_type": "guidance", "score": 5
EchoToken(i) == "e" \o ToString(i)

EchoTokens == { EchoToken(i) : i \in 1..(MaxEcho + 1) }

\* every member-list token json.loads accepts inside an object
ObjectTokens == Atoms \cup EchoTokens

\* Python Optional[...]: None or a value
NoneVal == [some |-> FALSE, v |-> <<>>]
Some(x) == [some |-> TRUE, v |-> x]

\* str.strip() on a token sequence
RECURSIVE LStrip(_)
LStrip(t) == IF t # <<>> /\ Head(t) = WS THEN LStrip(Tail(t)) ELSE t

RECURSIVE RStrip(_)
RStrip(t) ==
    IF t # <<>> /\ t[Len(t)] = WS THEN RStrip(SubSeq(t, 1, Len(t) - 1)) ELSE t

Strip(t) == LStrip(RStrip(t))

\* re.sub(r"^<fence>json|<fence>$", "", cleaned, flags=re.IGNORECASE)
StripFences(t) ==
    LET t1 == IF t # <<>> /\ Head(t) = FENCE_OPEN THEN Tail(t) ELSE t
    IN  IF t1 # <<>> /\ t1[Len(t1)] = FENCE_CLOSE
        THEN SubSeq(t1, 1, Len(t1) - 1)
        ELSE t1

\* str.find / str.rfind, 0-based, -1 when absent
Find(t, c) ==
    IF \E i \in 1..Len(t) : t[i] = c
    THEN (CHOOSE i \in 1..Len(t) : t[i] = c /\ \A j \in 1..(i - 1) : t[j] # c) - 1
    ELSE -1

RFind(t, c) ==
    IF \E i \in 1..Len(t) : t[i] = c
    THEN (CHOOSE i \in 1..Len(t) : t[i] = c /\ \A j \in (i + 1)..Len(t) : t[j] # c) - 1
    ELSE -1

\* index of the first token at or after i that is not whitespace (Len+1 if none)
RECURSIVE SkipWs(_, _)
SkipWs(t, i) == IF i <= Len(t) /\ t[i] = WS THEN SkipWs(t, i + 1) ELSE i

\* re.sub(r",\s*<closer>", "<closer>", block): one left-to-right pass
RECURSIVE SubCommaFrom(_, _, _)
SubCommaFrom(t, i, closer) ==
    IF i > Len(t) THEN <<>>
    ELSE LET j == SkipWs(t, i + 1)
         IN  IF t[i] = "," /\ j <= Len(t) /\ t[j] = closer
             THEN <<closer>> \o SubCommaFrom(t, j + 1, closer)
             ELSE <<t[i]>> \o SubCommaFrom(t, i + 1, closer)

\* a plausible slip: the pattern is ",<closer>" without the \s*
RECURSIVE SubCommaAdjacent(_, _)
SubCommaAdjacent(t, closer) ==
    IF t = <<>> THEN <<>>
    ELSE IF Len(t) >= 2 /\ t[1] = "," /\ t[2] = closer
    THEN <<closer>> \o SubCommaAdjacent(SubSeq(t, 3, Len(t)), closer)
    ELSE <<Head(t)>> \o SubCommaAdjacent(Tail(t), closer)

SubComma(t, closer) == SubCommaFrom(t, 1, closer)

\* BaseExtractor._extract_json_block
_extract_json_block(text) ==
    IF text = <<>> THEN NoneVal
    ELSE LET cleaned == StripFences(Strip(text))
             s == Find(cleaned, "[")
             e == RFind(cleaned, "]")
         IN  IF s = -1 \/ e = -1 THEN NoneVal
             ELSE Some(SubComma(SubComma(Slice(cleaned, s, e + 1), "}"), "]"))

(***************************************************************************)
(* json.loads on a token sequence: a recursive-descent parser.  A parsed   *)
(* value is [k, m]: k is "num", "obj" or "arr", m the member-list token of *)
(* an object ("" for an empty object or a non-object).  The elements of    *)
(* the outermost array are returned in elems; the contents of nested       *)
(* arrays are checked for validity and then dropped, since the extractors  *)
(* treat every non-object element alike.                                   *)
(***************************************************************************)
ParseFail == [ok |-> FALSE, next |-> 0, val |-> [k |-> "none", m |-> ""], elems |-> <<>>]

ParseOk(nxt, kind, mem, es) ==
    [ok |-> TRUE, next |-> nxt, val |-> [k |-> kind, m |-> mem], elems |-> es]

RECURSIVE ParseValue(_, _), ParseElems(_, _, _)

ParseValue(t, i0) ==
    LET i == SkipWs(t, i0)
    IN  IF i > Len(t) THEN ParseFail
        ELSE IF t[i] = "1" THEN ParseOk(i + 1, "num", "", <<>>)
        ELSE IF t[i] = "{" THEN
            LET j == SkipWs(t, i + 1)
            IN  IF j > Len(t) THEN ParseFail
                ELSE IF t[j] = "}" THEN ParseOk(j + 1, "obj", "", <<>>)
                ELSE IF t[j] \in ObjectTokens THEN
                    LET j2 == SkipWs(t, j + 1)
                    IN  IF j2 <= Len(t) /\ t[j2] = "}"
                        THEN ParseOk(j2 + 1, "obj", t[j], <<>>)
                        ELSE ParseFail
                ELSE ParseFail
        ELSE IF t[i] = "[" THEN
            LET j == SkipWs(t, i + 1)
            IN  IF j > Len(t) THEN ParseFail
                ELSE IF t[j] = "]" THEN ParseOk(j + 1, "arr", "", <<>>)
                ELSE ParseElems(t, j, <<>>)
        ELSE ParseFail

ParseElems(t, i, acc) ==
    LET r == ParseValue(t, i)
    IN  IF ~r.ok THEN ParseFail
        ELSE LET j == SkipWs(t, r.next)
             IN  IF j > Len(t) THEN ParseFail
                 ELSE IF t[j] = "," THEN ParseElems(t, j + 1, Append(acc, r.val))
                 ELSE IF t[j] = "]" THEN ParseOk(j + 1, "arr", "", Append(acc, r.val))
                 ELSE ParseFail

\* json.loads(text): ok = FALSE stands for the exception it raises
JsonLoads(t) ==
    LET r == ParseValue(t, 1)
    IN  IF r.ok /\ SkipWs(t, r.next) > Len(t) THEN r ELSE ParseFail

\* a plausible slip: no try/except around json.loads, the error escapes
SafeJsonLoadUnsafe(opt) ==
    IF ~opt.some \/ opt.v = <<>> THEN [raised |-> FALSE, val |-> NoneVal]
    ELSE LET r == JsonLoads(opt.v)
         IN  IF r.ok THEN [raised |-> FALSE, val |-> Some(r)]
             ELSE [raised |-> TRUE, val |-> NoneVal]

\* BaseExtractor._safe_json_load: None for None or "", None when json.loads raises
_safe_json_load(opt) ==
    IF ~opt.some \/ opt.v = <<>> THEN [raised |-> FALSE, val |-> NoneVal]
    ELSE LET r == JsonLoads(opt.v)
         IN  IF r.ok THEN [raised |-> FALSE, val |-> Some(r)]
             ELSE [raised |-> FALSE, val |-> NoneVal]

\* items = self._safe_json_load(json_block) or []
\* (the block starts with "[", so a parsed value is always an array)
ItemsOrEmpty(loaded) ==
    IF loaded.some /\ loaded.v.val.k = "arr" THEN loaded.v.elems ELSE <<>>

(***************************************************************************)
(* Classified items.  A JSON member that the code reads as a string is a   *)
(* value [p, s]: p = "missing" when the key is absent, "null" for JSON     *)
(* null, "str" for a string whose characters (or lines, for text) are s.   *)
(***************************************************************************)
Str(chs) == [p |-> "str", s |-> chs]
Missing == [p |-> "missing", s |-> <<>>]
Null == [p |-> "null", s |-> <<>>]

\* dict.get(key, default) for a string-valued key
Get(v, default) == IF v.p = "missing" THEN Str(default) ELSE v

\* models/enums.py: Tone and Impact member values
T_positive == <<"p", "o", "s", "i", "t", "i", "v", "e">>
T_neutral == <<"n", "e", "u", "t", "r", "a", "l">>
T_cautious == <<"c", "a", "u", "t", "i", "o", "u", "s">>
ToneValues == {T_positive, T_neutral, T_cautious}

I_HIGH == <<"H", "I", "G", "H">>
I_MED == <<"M", "E", "D">>
I_LOW == <<"L", "O", "W">>
ImpactValues == {I_HIGH, I_MED, I_LOW}

\* Enum(value): the member with that value, or ValueError (ok = FALSE)
EnumLookup(v, members) ==
    IF v.p = "str" /\ v.s \in members
    THEN [ok |-> TRUE, v |-> v.s]
    ELSE [ok |-> FALSE, v |-> <<>>]

\* Tone(item.get("tone", "neutral")); the investor extractor lowercases first
ToneOf(ex, item) ==
    LET raw == Get(item.tone, T_neutral)
    IN  IF ex = "investor"
        THEN IF raw.p = "str" THEN EnumLookup(Str(Lower(raw.s)), ToneValues)
             ELSE [ok |-> FALSE, v |-> <<>>]
        ELSE EnumLookup(raw, ToneValues)

\* Impact(item.get("impact", "MED")); the investor extractor uppercases first
ImpactOf(ex, item) ==
    LET raw == Get(item.impact, I_MED)
    IN  IF ex = "investor"
        THEN IF raw.p = "str" THEN EnumLookup(Str(Upper(raw.s)), ImpactValues)
             ELSE [ok |-> FALSE, v |-> <<>>]
        ELSE EnumLookup(raw, ImpactValues)

\* int(item.get("score", 5)): a score is [p, v] with p one of "missing",
\* "int", "numstr" (a string int() parses), "str" (any other string), "null"
PyInt(score) ==
    IF score.p = "missing" THEN [ok |-> TRUE, v |-> 5]
    ELSE IF score.p \in {"int", "numstr"} THEN [ok |-> TRUE, v |-> score.v]
    ELSE [ok |-> FALSE, v |-> 0]

\* a plausible slip: the upper limit of the score field left out
ScoreFieldNoUpper(n) == n >= 1

\* score: int = Field(..., ge=1, le=10)
ScoreField(n) == n >= 1 /\ n <= 10

\* a plausible slip: the "regul" rule tested before the "contract" rule
ForecastOfRegulFirst(ex, raw_type) ==
    IF Contains(raw_type, Chars("regul")) THEN "REGULATORY"
    ELSE IF Contains(raw_type, Chars("contract")) THEN "CONTRACTUAL"
    ELSE IF Contains(raw_type, Chars("time")) \/ Contains(raw_type, Chars("sched"))
    THEN "TIMING"
    ELSE IF ex = "annual" /\ Contains(raw_type, Chars("guidance")) THEN "GUIDANCE"
    ELSE IF ex = "annual" /\ Contains(raw_type, Chars("strategy")) THEN "STRATEGY"
    ELSE "HINTS"

\* the substring rules shared by the annual, quarterly and 10-Q extractors,
\* followed by the annual extractor's two extra rules
ForecastOf(ex, raw_type) ==
    IF Contains(raw_type, Chars("contract")) THEN "CONTRACTUAL"
    ELSE IF Contains(raw_type, Chars("regul")) THEN "REGULATORY"
    ELSE IF Contains(raw_type, Chars("time")) \/ Contains(raw_type, Chars("sched")) THEN "TIMING"
    ELSE IF ex = "annual" /\ Contains(raw_type, Chars("guidance")) THEN "GUIDANCE"
    ELSE IF ex = "annual" /\ Contains(raw_type, Chars("strategy")) THEN "STRATEGY"
    ELSE "HINTS"

\* asx_investor.py CATEGORY_MAP.get(cat_name, ForecastType.STRATEGY)
InvestorCategory(cat_name) ==
    IF cat_name = "Intent Verbs" THEN "INTENT"
    ELSE IF cat_name = "Timeline" THEN "TIMING"
    ELSE IF cat_name = "Guidance" THEN "GUIDANCE"
    ELSE IF cat_name = "Milestones" THEN "MILESTONES"
    ELSE IF cat_name = "Deals" THEN "DEALS"
    ELSE "STRATEGY"

\* list(dict.fromkeys(v)): drop repeats, keep first occurrences in order
RECURSIVE DedupeFrom(_, _)
DedupeFrom(v, seen) ==
    IF v = <<>> THEN <<>>
    ELSE IF Head(v) \in seen THEN DedupeFrom(Tail(v), seen)
    ELSE <<Head(v)>> \o DedupeFrom(Tail(v), seen \cup {Head(v)})

\* a plausible slip: the dict.fromkeys pass is left out
DedupeNone(v) == v

Dedupe(v) == DedupeFrom(v, {})

\* CatalystDisclosure.clean_text: join the stripped non-blank lines
clean_text(v) ==
    IF v.p # "str" THEN <<>>
    ELSE SelectSeq(v.s, LAMBDA line : line # "")

\* Path(file_path).stem for the paths of the model
Stem(path) ==
    IF path = "local.pdf" THEN "local"
    ELSE IF path = "asx_h.pdf" THEN "asx_h"
    ELSE path

ExchangeOf(ex) == IF ex = "sec_10q" THEN "SEC" ELSE "ASX"

FilingTypeOf(ex) ==
    IF ex = "annual" THEN "ASX_ANNUAL"
    ELSE IF ex = "quarterly" THEN "ASX_QUARTERLY"
    ELSE IF ex = "investor" THEN "ASX_INVESTOR"
    ELSE "SEC_10Q"

DroppedItem == [ok |-> FALSE, rec |-> [sentence_id |-> [prefix |-> "s", n |-> 0]]]

\* The body of the "for item in items" loop: the forecast rules and the
\* CatalystDisclosure(...) construction.  ok = FALSE stands for any exception
\* raised inside the try block (the item is dropped).
\* lists are [p, v] like strings; an entity is [str, s], str = FALSE for an
\* element that is not a string
NormalizeDict(ex, item, md, fpath, idx) ==
    LET ft == Get(item.forecast_type, <<>>)
        tone == ToneOf(ex, item)
        impact == ImpactOf(ex, item)
        score == PyInt(item.score)
        ents == IF item.entities.p = "missing" THEN <<>> ELSE item.entities.v
        cats == IF item.categories_matched.p = "missing" THEN <<>>
                ELSE item.categories_matched.v
        raises ==
            \/ ex # "investor" /\ ft.p # "str"
            \/ ~tone.ok
            \/ ~impact.ok
            \/ ~score.ok
            \/ score.ok /\ ~ScoreField(score.v)
            \/ item.entities.p = "null"
            \/ ex # "investor" /\ \E i \in 1..Len(ents) : ~ents[i].str
            \/ ex \in {"annual", "investor"} /\ item.categories_matched.p = "null"
        forecast ==
            IF ex = "investor"
            THEN IF cats # <<>> THEN InvestorCategory(cats[1]) ELSE "STRATEGY"
            ELSE ForecastOf(ex, Lower(ft.s))
    IN  IF raises THEN DroppedItem
        ELSE [ok |-> TRUE,
              rec |-> [doc_id |-> IF md.doc_id # None THEN md.doc_id ELSE Stem(fpath),
                       exchange |-> ExchangeOf(ex),
                       filing_type |-> FilingTypeOf(ex),
                       filing_date |-> md.date,
                       source_file |-> fpath,
                       sentence_id |-> [prefix |-> "s", n |-> idx],
                       text |-> clean_text(item.text),
                       forward_looking |-> TRUE,
                       forecast_type |-> forecast,
                       tone |-> tone.v,
                       impact |-> impact.v,
                       score |-> score.v,
                       categories_matched |->
                           IF ex \in {"annual", "investor"} THEN Dedupe(cats) ELSE <<>>,
                       entities |->
                           [i \in 1..Len(ents) |->
                               [type |-> "entity", value |-> ents[i].s, text |-> ents[i].s]],
                       flag |-> "ok"]]

\* the dict with no keys: the JSON object {}
EmptyDict ==
    [text |-> Missing, tone |-> Missing, impact |-> Missing,
     score |-> [p |-> "missing", v |-> 0], forecast_type |-> Missing,
     entities |-> [p |-> "missing", v |-> <<>>],
     categories_matched |-> [p |-> "missing", v |-> <<>>]]

\* the objects of the item pool, by member-list token
ItemOf(atom) ==
    IF atom = "a" THEN
        [text |-> Str(<<"Alpha will sign", "", "the contract in Q3.">>),
         tone |-> Str(T_positive), impact |-> Str(I_HIGH),
         score |-> [p |-> "int", v |-> 7],
         forecast_type |-> Str(<<"B", "i", "n", "d", "i", "n", "g", " ", "C", "o", "n", "t", "r", "a", "c", "t">>),
         entities |-> [p |-> "list", v |-> <<[str |-> TRUE, s |-> "Alpha"]>>],
         categories_matched |-> [p |-> "list", v |-> <<"Timeline", "Deals", "Timeline">>]]
    ELSE IF atom = "b" THEN
        LET w == "Beta expects growth in revenue. "
            w4 == w \o w \o w \o w
        IN  [EmptyDict EXCEPT !.text = Str(<<"Beta expects growth.",
                                             w4 \o w4 \o w4 \o w4>>)]
    ELSE IF atom = "c" THEN
        [EmptyDict EXCEPT !.text = Str(<<"Gamma may expand.">>),
                          !.score = [p |-> "int", v |-> 11]]
    ELSE IF atom \in EchoTokens THEN
        LET i == CHOOSE k \in 1..(MaxEcho + 1) : EchoToken(k) = atom
        IN  [EmptyDict EXCEPT !.text = Str(<<CandidateText(i)>>),
                              !.tone = Str(T_neutral),
                              !.impact = Str(I_MED),
                              !.score = [p |-> "int", v |-> 5],
                              !.forecast_type = Str(Chars("guidance"))]
    ELSE EmptyDict

\* a plausible slip: "break" instead of "continue" in the except branch, so a
\* failing item ends the batch
RECURSIVE NormalizeItemsBreak(_, _, _, _, _)
NormalizeItemsBreak(ex, its, md, fpath, idx) ==
    IF its = <<>> THEN <<>>
    ELSE LET r == IF Head(its).k = "obj"
                  THEN NormalizeDict(ex, ItemOf(Head(its).m), md, fpath, idx)
                  ELSE DroppedItem
         IN  IF r.ok
             THEN <<r.rec>> \o NormalizeItemsBreak(ex, Tail(its), md, fpath, idx + 1)
             ELSE <<>>

\* a plausible slip: global_idx incremented for dropped items too
RECURSIVE NormalizeItemsGap(_, _, _, _, _)
NormalizeItemsGap(ex, its, md, fpath, idx) ==
    IF its = <<>> THEN <<>>
    ELSE LET r == IF Head(its).k = "obj"
                  THEN NormalizeDict(ex, ItemOf(Head(its).m), md, fpath, idx)
                  ELSE DroppedItem
         IN  IF r.ok
             THEN <<r.rec>> \o NormalizeItemsGap(ex, Tail(its), md, fpath, idx + 1)
             ELSE NormalizeItemsGap(ex, Tail(its), md, fpath, idx + 1)

\* "for item in items: try: ... results.append(model); global_idx += 1
\*  except Exception: continue": the records one batch appends, in order.
\* An element that is not an object fails at item.get and is dropped.
RECURSIVE NormalizeItems(_, _, _, _, _)
NormalizeItems(ex, its, md, fpath, idx) ==
    IF its = <<>> THEN <<>>
    ELSE LET r == IF Head(its).k = "obj"
                  THEN NormalizeDict(ex, ItemOf(Head(its).m), md, fpath, idx)
                  ELSE DroppedItem
         IN  IF r.ok
             THEN <<r.rec>> \o NormalizeItems(ex, Tail(its), md, fpath, idx + 1)
             ELSE NormalizeItems(ex, Tail(its), md, fpath, idx)

(***************************************************************************)
(* The responses the remote model may give: every short token sequence    *)
(* over a small alphabet, and every item list of the pool rendered as a    *)
(* clean array or inside code fences with trailing commas.                 *)
(***************************************************************************)
JunkAlphabet == {"[", "]", "x"}

ShortTexts == UNION { [1..k -> JunkAlphabet] : k \in 0..MaxTextLen }

\* the elements a rendered array may hold: pool objects and the scalar "1"
ItemSeqs == UNION { [1..k -> Atoms \cup {"1"}] : k \in 0..MaxItems }

RECURSIVE RenderObjects(_, _)
RenderObjects(atoms, trailing) ==
    IF atoms = <<>> THEN <<>>
    ELSE (IF Head(atoms) = "1" THEN <<"1">>
          ELSE IF trailing THEN <<"{", Head(atoms), ",", WS, "}">>
          ELSE <<"{", Head(atoms), "}">>)
         \o (IF Tail(atoms) = <<>> THEN <<>> ELSE <<",">>)
         \o RenderObjects(Tail(atoms), trailing)

\* the array as clean JSON
Render(atoms) == <<"[">> \o RenderObjects(atoms, FALSE) \o <<"]">>

\* the same array inside a json code fence, with trailing commas
RenderFenced(atoms) ==
    <<FENCE_OPEN, WS, "[">> \o RenderObjects(atoms, TRUE)
        \o (IF atoms = <<>> THEN <<>> ELSE <<",">>)
        \o <<WS, "]", WS, FENCE_CLOSE>>

\* every array, fenced and with trailing commas
FencedTexts == { RenderFenced(a) : a \in ItemSeqs }

\* the responses of the extraction specification
ResponseTexts == ShortTexts \cup { Render(a) : a \in ItemSeqs } \cup FencedTexts

(***************************************************************************)
(* BaseExtractor.run and the extract() loop of the four extractors.        *)
(***************************************************************************)
\* retries=3 in _ask_llm's call of _retry_call
Retries == 3

\* a plausible slip: the catch-all "except Exception" branch left out
run_wrapper_no_catchall(e, value) ==
    IF e = "none" THEN [raised |-> "none", val |-> Some(value)]
    ELSE IF e \in {"InvalidFilingError", "ExtractionError"}
    THEN [raised |-> "none", val |-> Some(<<>>)]
    ELSE [raised |-> e, val |-> NoneVal]

\* BaseExtractor.run: what it returns (or raises) for each outcome of extract
run_wrapper(e, value) ==
    IF e = "none" THEN [raised |-> "none", val |-> Some(value)]
    ELSE IF e = "InvalidFilingError" THEN [raised |-> "none", val |-> Some(<<>>)]
    ELSE IF e = "ExtractionError" THEN [raised |-> "none", val |-> Some(<<>>)]
    ELSE [raised |-> "none", val |-> Some(<<>>)]

\* "for batch_num, batch in enumerate(batches, start=1): if not batch: continue":
\* the first batch at or after k that is processed (Len + 1 when none is left).
\* The investor extractor has no empty-batch check.
RECURSIVE NextBatch(_, _, _)
NextBatch(ex, bs, k) ==
    IF k > Len(bs) THEN k
    ELSE IF ex # "investor" /\ bs[k] = <<>> THEN NextBatch(ex, bs, k + 1)
    ELSE k

unchanged_doc ==
    UNCHANGED <<extractor, readable, metadata, candidates, file_path, cur_item,
                pipeline_vars, doc_vars, retries>>

\* extract(): the document cannot be read or parsed.  partition_pdf raises
\* out of the PDF extractors; the 10-Q extractor catches the read error and
\* returns [].
SegmentFail ==
    /\ pc = "run"
    /\ ~readable
    /\ IF extractor = "sec_10q"
       THEN pc' = "returned" /\ exc' = "none"
       ELSE pc' = "raised" /\ exc' = "Exception"
    /\ results' = <<>>
    /\ UNCHANGED <<batches, batch_num, attempt, resp, items, global_idx, run_result>>
    /\ unchanged_doc

\* extract(): "if not sections: return []" / "if not candidates: return []"
ExtractEmpty ==
    /\ pc = "run"
    /\ readable
    /\ candidates = <<>>
    /\ pc' = "returned"
    /\ results' = <<>>
    /\ UNCHANGED <<batches, batch_num, attempt, resp, items, global_idx, exc, run_result>>
    /\ unchanged_doc

\* extract(): the batching block, "results = []; global_idx = 1", and entry
\* into the batch loop
BuildBatches ==
    /\ pc = "run"
    /\ readable
    /\ candidates # <<>>
    /\ batches' = MakeBatches(extractor, candidates)
    /\ results' = <<>>
    /\ global_idx' = 1
    /\ batch_num' = NextBatch(extractor, batches', 1)
    /\ attempt' = 0
    /\ pc' = IF batch_num' > Len(batches') THEN "returned" ELSE "sleep"
    /\ UNCHANGED <<resp, items, exc, run_result>>
    /\ unchanged_doc

\* _retry_call: time.sleep(1) before each attempt.  The response and items of
\* the previous iteration are never read again once the next iteration has
\* started, so the model forgets them here.
RetrySleep ==
    /\ pc = "sleep"
    /\ pc' = "call"
    /\ resp' = <<>>
    /\ items' = <<>>
    /\ UNCHANGED <<batches, batch_num, attempt, results, global_idx, exc, run_result>>
    /\ unchanged_doc

\* a plausible slip: the last-attempt test is off by one (i == retries)
RetryCallFailExtra ==
    /\ pc = "call"
    /\ IF attempt = retries
       THEN pc' = "raised" /\ exc' = "ExtractionError"
       ELSE pc' = "backoff" /\ exc' = exc
    /\ UNCHANGED <<batches, batch_num, attempt, resp, items, results, global_idx,
                   run_result>>
    /\ unchanged_doc

\* _retry_call: fn() raises.  On the last attempt the error is re-raised,
\* _ask_llm wraps it in ExtractionError, and nothing in extract() catches it.
RetryCallFail ==
    /\ pc = "call"
    /\ IF attempt = retries - 1
       THEN pc' = "raised" /\ exc' = "ExtractionError"
       ELSE pc' = "backoff" /\ exc' = exc
    /\ UNCHANGED <<batches, batch_num, attempt, resp, items, results, global_idx,
                   run_result>>
    /\ unchanged_doc

\* a plausible slip: the retry calls fn() again without the fixed wait
RetryBackoffNoWait ==
    /\ pc = "backoff"
    /\ attempt' = attempt + 1
    /\ pc' = "call"
    /\ UNCHANGED <<batches, batch_num, resp, items, results, global_idx,
                   exc, run_result>>
    /\ unchanged_doc

\* _retry_call: time.sleep(delay) after a failed attempt, then the next attempt
RetryBackoff ==
    /\ pc = "backoff"
    /\ attempt' = attempt + 1
    /\ pc' = "sleep"
    /\ UNCHANGED <<batches, batch_num, resp, items, results, global_idx,
                   exc, run_result>>
    /\ unchanged_doc

\* _retry_call: fn() succeeds, so _ask_llm returns the response text; then
\* extract() parses it, normalises its items and goes to the next batch (or
\* returns when the loop is over)
ProcessBatchFrom(texts) ==
    /\ pc = "call"
    /\ \E text \in texts :
        LET loaded == _safe_json_load(_extract_json_block(text))
        IN  /\ resp' = text
            /\ IF loaded.raised
               THEN /\ pc' = "raised"
                    /\ exc' = "Exception"
                    /\ UNCHANGED <<batch_num, attempt, items, results, global_idx>>
               ELSE LET its == ItemsOrEmpty(loaded.val)
                        new == NormalizeItems(extractor, its, metadata, file_path,
                                              global_idx)
                        nxt == NextBatch(extractor, batches, batch_num + 1)
                    IN  /\ items' = its
                        /\ results' = results \o new
                        /\ global_idx' = global_idx + Len(new)
                        /\ batch_num' = nxt
                        /\ attempt' = 0
                        /\ pc' = IF nxt > Len(batches) THEN "returned" ELSE "sleep"
                        /\ exc' = exc
    /\ UNCHANGED <<batches, run_result>>
    /\ unchanged_doc

\* the batch loop's iteration for any response of the model
ProcessBatch == ProcessBatchFrom(ResponseTexts)

\* BaseExtractor.run: return extract's list, or [] for whatever it raised
Run ==
    /\ pc \in {"returned", "raised"}
    /\ LET r == run_wrapper(exc, results)
       IN  /\ run_result' = r.val
           /\ exc' = r.raised
    /\ pc' = "done"
    /\ UNCHANGED <<batches, batch_num, attempt, resp, items, results, global_idx>>
    /\ unchanged_doc

\* the metadata dicts of the model: the shape src/test.py passes (key "date")
\* and the shape Pipeline.process_file builds (key "filing_date", no "date")
MetadataInputs ==
    { [doc_id |-> "D1", date |-> "2025-11-03", filing_date |-> None],
      [doc_id |-> "D1", date |-> None, filing_date |-> "2025-11-03"] }

\* the dispatcher and process_file are not running
PipelineIdle ==
    /\ cur_item = EmptyDict
    /\ exchange = <<>>
    /\ filing_type = <<>>
    /\ api_key = "set"
    /\ file_url = None
    /\ fs = {"local.pdf"}
    /\ tmp_path = None
    /\ persisted = <<>>
    /\ pf_return = None
    /\ elems = <<>>
    /\ sections = <<>>
    /\ retries = Retries

\* the metadata Pipeline.process_file builds for a document
PipelineMetadata == [doc_id |-> "D1", date |-> None, filing_date |-> "2025-11-03"]

Init ==
    /\ pc = "run"
    /\ extractor \in Extractors
    /\ readable \in BOOLEAN
    /\ metadata = PipelineMetadata
    /\ \E n \in 0..MaxCand : candidates = [i \in 1..n |-> i]
    /\ file_path = "local.pdf"
    /\ batches = <<>>
    /\ batch_num = 0
    /\ attempt = 0
    /\ resp = <<>>
    /\ items = <<>>
    /\ results = <<>>
    /\ global_idx = 1
    /\ exc = "none"
    /\ run_result = NoneVal
    /\ PipelineIdle

Next ==
    \/ SegmentFail
    \/ ExtractEmpty
    \/ BuildBatches
    \/ RetrySleep
    \/ RetryCallFail
    \/ RetryBackoff
    \/ ProcessBatch
    \/ Run

Spec == Init /\ [][Next]_vars

(***************************************************************************)
(* The adaptive batcher alone, over every candidate count up to MaxN.      *)
(***************************************************************************)
InitBatch ==
    /\ pc = "run"
    /\ extractor \in Extractors
    /\ readable = TRUE
    /\ metadata = PipelineMetadata
    /\ \E n \in 0..MaxN : candidates = [i \in 1..n |-> i]
    /\ file_path = "local.pdf"
    /\ batches = <<>>
    /\ batch_num = 0
    /\ attempt = 0
    /\ resp = <<>>
    /\ items = <<>>
    /\ results = <<>>
    /\ global_idx = 1
    /\ exc = "none"
    /\ run_result = NoneVal
    /\ PipelineIdle

NextBatching == ExtractEmpty \/ BuildBatches

SpecBatch == InitBatch /\ [][NextBatching]_vars

(***************************************************************************)
(* The loop body alone (one classified item through the forecast rules and *)
(* the CatalystDisclosure construction), over a product of field values.   *)
(***************************************************************************)
\* largest integer score a classified item carries
MaxScoreIn == 12

ScoreInputs ==
    { [p |-> "int", v |-> n] : n \in -1..MaxScoreIn }
        \cup { [p |-> "numstr", v |-> 7], [p |-> "numstr", v |-> 11],
               [p |-> "missing", v |-> 0], [p |-> "null", v |-> 0],
               [p |-> "str", v |-> 0] }

ToneInputs ==
    { Missing, Null, Str(T_positive), Str(Upper(T_cautious)),
      Str(<<"b", "u", "l", "l", "i", "s", "h">>) }

ImpactInputs == { Missing, Str(I_HIGH), Str(Lower(I_LOW)), Str(<<"H", "U", "G", "E">>) }

ForecastInputs ==
    { Missing, Null, Str(<<"G", "u", "i", "d", "a", "n", "c", "e">>),
      Str(<<"r", "e", "g", "u", "l", "a", "t", "o", "r", "y", " ", "t", "i", "m", "e">>) }

EntityInputs ==
    { [p |-> "missing", v |-> <<>>],
      [p |-> "list", v |-> <<[str |-> TRUE, s |-> "Alpha"], [str |-> FALSE, s |-> "1"]>>] }

ItemInputs ==
    { [text |-> Str(<<"Alpha will sign", "", "the contract in Q3.">>),
       tone |-> t, impact |-> i, score |-> sc, forecast_type |-> f, entities |-> e,
       categories_matched |-> [p |-> "list", v |-> <<"Deals", "Timeline", "Deals">>]] :
        t \in ToneInputs, i \in ImpactInputs, sc \in ScoreInputs,
        f \in ForecastInputs, e \in EntityInputs }

\* one iteration of "for item in items": append the record, or drop the item
NormalizeOne ==
    /\ pc = "item"
    /\ LET r == NormalizeDict(extractor, cur_item, metadata, file_path, global_idx)
       IN  IF r.ok
           THEN results' = Append(results, r.rec) /\ global_idx' = global_idx + 1
           ELSE UNCHANGED <<results, global_idx>>
    /\ pc' = "item_done"
    /\ UNCHANGED <<extractor, readable, metadata, candidates, batches, batch_num,
                   attempt, resp, items, exc, run_result, file_path, cur_item,
                   pipeline_vars, doc_vars, retries>>

InitNorm ==
    /\ pc = "item"
    /\ extractor \in Extractors
    /\ readable = TRUE
    /\ metadata \in MetadataInputs
    /\ candidates = <<1>>
    /\ file_path = "local.pdf"
    /\ batches = <<<<1>>>>
    /\ batch_num = 1
    /\ attempt = 0
    /\ resp = <<>>
    /\ items = <<>>
    /\ results = <<>>
    /\ global_idx = 1
    /\ exc = "none"
    /\ run_result = NoneVal
    /\ cur_item \in ItemInputs
    /\ exchange = <<>>
    /\ filing_type = <<>>
    /\ api_key = "set"
    /\ file_url = None
    /\ fs = {"local.pdf"}
    /\ tmp_path = None
    /\ persisted = <<>>
    /\ pf_return = None
    /\ elems = <<>>
    /\ sections = <<>>
    /\ retries = Retries

SpecNorm == InitNorm /\ [][NormalizeOne]_vars

(***************************************************************************)
(* BaseExtractor.run alone, over every outcome of the abstract extract().  *)
(***************************************************************************)
\* what extract() may raise ("none": it returned normally)
ExtractOutcomes == {"none", "InvalidFilingError", "ExtractionError", "Exception"}

\* the parsed items of a clean rendering of an item list
ParsedItems(atoms) == ItemsOrEmpty(_safe_json_load(_extract_json_block(Render(atoms))).val)

InitRun ==
    /\ exc \in ExtractOutcomes
    /\ pc = IF exc = "none" THEN "returned" ELSE "raised"
    /\ extractor \in Extractors
    /\ readable = TRUE
    /\ metadata = PipelineMetadata
    /\ candidates = <<1>>
    /\ file_path = "local.pdf"
    /\ batches = <<<<1>>>>
    /\ batch_num = 1
    /\ attempt = 0
    /\ resp = <<>>
    /\ items = <<>>
    /\ \E a \in ItemSeqs :
        results = NormalizeItems(extractor, ParsedItems(a), metadata, file_path, 1)
    /\ global_idx = Len(results) + 1
    /\ run_result = NoneVal
    /\ PipelineIdle

SpecRun == InitRun /\ [][Run]_vars

(***************************************************************************)
(* Pipeline.process_file: download, dispatch, run, cleanup, persist.       *)
(***************************************************************************)
\* URLs from which download_local_file obtains a PDF
DownloadableUrls == {"http://ok"}

\* ASX_DOWNLOAD_DIR / "asx_<hash>.pdf" for the one downloadable URL
DownloadPath == "asx_h.pdf"

\* download_local_file: the path returned, the files on disk afterwards, and
\* whether it raised ValueError
download_local_file(url, files) ==
    IF url \in files
    THEN [raised |-> "none", path |-> url, fs |-> files]
    ELSE IF url \in DownloadableUrls
    THEN [raised |-> "none", path |-> DownloadPath, fs |-> files \cup {DownloadPath}]
    ELSE [raised |-> "ValueError", path |-> None, fs |-> files]

\* metadata = metadata or {}; metadata.update({...}) with doc_id "D1" and a
\* filing date: the key written is "filing_date", "date" is left as it was
ProcessFileMetadata(md) ==
    [md EXCEPT !.doc_id = "D1", !.filing_date = "2025-11-03"]

\* i["text"] = i["text"][:400]
StoredTextMax == 400

\* a plausible slip: the records are truncated in place, not in a copy
PersistRowInPlace(e, ft, md, source, output) ==
    LET RECURSIVE Join(_)
        Join(lines) == IF lines = <<>> THEN ""
                       ELSE IF Len(lines) = 1 THEN lines[1]
                       ELSE lines[1] \o " " \o Join(Tail(lines))
        Stored(lines) == LET t == Join(lines)
                         IN  SubSeq(t, 1, Min(StoredTextMax, Len(t)))
        serializable == [i \in 1..Len(output) |->
                            [output[i] EXCEPT !.text = <<Stored(output[i].text)>>]]
    IN  [row |-> [doc_id |-> md.doc_id, exchange |-> e, filing_type |-> ft,
                  filing_date |-> md.filing_date, source_file |-> source,
                  n_items |-> Len(output), items |-> serializable],
         output |-> serializable]

\* persist_output_json: the row written for a list of records (each record
\* dumped to a new dict whose text, the lines joined by blanks, is cut to 400
\* characters), and the caller's list after the call
PersistRow(e, ft, md, source, output) ==
    LET RECURSIVE Join(_)
        Join(lines) == IF lines = <<>> THEN ""
                       ELSE IF Len(lines) = 1 THEN lines[1]
                       ELSE lines[1] \o " " \o Join(Tail(lines))
        Stored(lines) == LET t == Join(lines)
                         IN  SubSeq(t, 1, Min(StoredTextMax, Len(t)))
        serializable == [i \in 1..Len(output) |->
                            [output[i] EXCEPT !.text = <<Stored(output[i].text)>>]]
    IN  [row |-> [doc_id |-> md.doc_id, exchange |-> e, filing_type |-> ft,
                  filing_date |-> md.filing_date, source_file |-> source,
                  n_items |-> Len(output), items |-> serializable],
         output |-> output]

loop_vars == <<readable, candidates, batches, batch_num, attempt, resp, items,
               results, global_idx, cur_item, doc_vars, retries>>

\* process_file, step 1: metadata.update and download_local_file(file_url)
ProcessFileDownload ==
    /\ pc = "process_file"
    /\ metadata' = ProcessFileMetadata(metadata)
    /\ LET d == download_local_file(file_url, fs)
       IN  /\ fs' = d.fs
           /\ tmp_path' = d.path
           /\ exc' = d.raised
           /\ pc' = IF d.raised = "none" THEN "dispatch" ELSE "pf_raised"
    /\ UNCHANGED <<extractor, run_result, file_path, exchange, filing_type,
                   api_key, file_url, persisted, pf_return>>
    /\ UNCHANGED loop_vars

\* process_file, step 3: get_extractor_instance(exchange, filing_type); a
\* KeyError (or what the constructor raises) propagates out of process_file
ProcessFileDispatch ==
    /\ pc = "dispatch"
    /\ LET r == get_extractor_instance(exchange, filing_type, api_key)
       IN  /\ extractor' = r.cls
           /\ exc' = r.raised
           /\ pc' = IF r.raised = "none" THEN "pf_run" ELSE "pf_raised"
    /\ UNCHANGED <<metadata, run_result, file_path, exchange, filing_type,
                   api_key, file_url, fs, tmp_path, persisted, pf_return>>
    /\ UNCHANGED loop_vars

\* process_file, step 4: items = extractor.run(str(tmp_path), metadata); run
\* never raises, and returns some list of records built from classified items
ProcessFileRun ==
    /\ pc = "pf_run"
    /\ file_path' = tmp_path
    /\ \E a \in ItemSeqs :
        run_result' = Some(NormalizeItems(extractor, ParsedItems(a), metadata,
                                          tmp_path, 1))
    /\ pc' = "cleanup"
    /\ UNCHANGED <<extractor, metadata, exc, pipeline_vars>>
    /\ UNCHANGED loop_vars

\* process_file: "if tmp_path.exists() and tmp_path.is_file(): tmp_path.unlink()"
ProcessFileCleanup ==
    /\ pc = "cleanup"
    /\ fs' = fs \ {tmp_path}
    /\ pc' = "persist"
    /\ UNCHANGED <<extractor, metadata, exc, run_result, file_path, exchange,
                   filing_type, api_key, file_url, tmp_path, persisted, pf_return>>
    /\ UNCHANGED loop_vars

\* process_file, step 5 and the return statement
ProcessFilePersist ==
    /\ pc = "persist"
    /\ LET p == PersistRow(exchange, filing_type, metadata, file_url, run_result.v)
       IN  /\ persisted' = Append(persisted, p.row)
           /\ pf_return' = [status |-> IF p.output # <<>> THEN "ok" ELSE "no_items",
                            count |-> Len(p.output),
                            items |-> p.output,
                            persist |-> Len(persisted')]
    /\ pc' = "pf_done"
    /\ UNCHANGED <<extractor, metadata, exc, run_result, file_path, exchange,
                   filing_type, api_key, file_url, fs, tmp_path>>
    /\ UNCHANGED loop_vars

\* the filing_type strings callers pass
PipelineFilingTypes ==
    { Chars("annual"), Chars("ASX_ANNUAL"), Chars("quarterly"), Lower(Chars("INVESTOR_PRESENTATION")),
      FT_SEC_10Q, Chars("10-Q"), Chars("unknown_type") }

PipelineExchanges == { S_ASX, Lower(S_ASX), S_SEC }

\* the state before extract() runs: no batch loop, no result
LoopIdle ==
    /\ readable = TRUE
    /\ candidates = <<>>
    /\ batches = <<>>
    /\ batch_num = 0
    /\ attempt = 0
    /\ resp = <<>>
    /\ items = <<>>
    /\ results = <<>>
    /\ global_idx = 1
    /\ cur_item = EmptyDict
    /\ exc = "none"
    /\ run_result = NoneVal
    /\ extractor = None
    /\ persisted = <<>>
    /\ pf_return = None
    /\ elems = <<>>
    /\ sections = <<>>
    /\ retries = Retries

InitPipeline ==
    /\ pc = "process_file"
    /\ LoopIdle
    /\ metadata = [doc_id |-> None, date |-> None, filing_date |-> None]
    /\ exchange \in PipelineExchanges
    /\ filing_type \in PipelineFilingTypes
    /\ api_key \in {"unset", "empty", "set"}
    /\ file_url \in {"local.pdf", "http://ok", "http://bad"}
    /\ fs \in {{"local.pdf"}, {"local.pdf", DownloadPath}}
    /\ file_path = None
    /\ tmp_path = None

NextPipeline ==
    \/ ProcessFileDownload
    \/ ProcessFileDispatch
    \/ ProcessFileRun
    \/ ProcessFileCleanup
    \/ ProcessFilePersist

SpecPipeline == InitPipeline /\ [][NextPipeline]_vars

(***************************************************************************)
(* The dispatcher alone, over the letter-case variants of every synonym.   *)
(***************************************************************************)
\* a string, its lowercase form, and the string with one character lowered
CaseVariants(k) ==
    {k, Lower(k)} \cup { [k EXCEPT ![i] = LowerChar(k[i])] : i \in 1..Len(k) }

DispatchFilingTypes ==
    UNION { CaseVariants(k) : k \in MappingKeys }
        \cup { FT_SEC_10Q, Lower(FT_SEC_10Q), Chars("unknown_type") }

DispatchExchanges ==
    CaseVariants(S_ASX) \cup CaseVariants(S_SEC) \cup { <<"N", "Y", "S", "E">> }

InitDispatch ==
    /\ pc = "dispatch"
    /\ LoopIdle
    /\ metadata = PipelineMetadata
    /\ exchange \in DispatchExchanges
    /\ filing_type \in DispatchFilingTypes
    /\ api_key \in {"unset", "empty", "set"}
    /\ file_url = "local.pdf"
    /\ fs = {"local.pdf"}
    /\ file_path = None
    /\ tmp_path = "local.pdf"

SpecDispatch == InitDispatch /\ [][ProcessFileDispatch]_vars

(***************************************************************************)
(* The batch loop when the model echoes every sentence of every batch back *)
(* as kept, and no call fails.                                             *)
(***************************************************************************)
\* the response that echoes a batch: one object per sentence, in order
EchoResponse(batch) == Render([j \in 1..Len(batch) |-> EchoToken(batch[j])])

\* the batch loop's iteration when the model echoes the batch
ProcessEcho == ProcessBatchFrom({EchoResponse(batches[batch_num])})

InitEcho ==
    /\ pc = "run"
    /\ extractor \in Extractors
    /\ readable = TRUE
    /\ metadata \in MetadataInputs
    /\ \E n \in 0..MaxEcho : candidates = [i \in 1..n |-> i]
    /\ file_path = "local.pdf"
    /\ batches = <<>>
    /\ batch_num = 0
    /\ attempt = 0
    /\ resp = <<>>
    /\ items = <<>>
    /\ results = <<>>
    /\ global_idx = 1
    /\ exc = "none"
    /\ run_result = NoneVal
    /\ PipelineIdle

NextEcho ==
    \/ ExtractEmpty
    \/ BuildBatches
    \/ RetrySleep
    \/ ProcessEcho
    \/ Run

SpecEcho == InitEcho /\ [][NextEcho]_vars

(***************************************************************************)
(* The forecast-type rules alone, over raw strings of several words in     *)
(* three letter cases.                                                     *)
(***************************************************************************)
\* raw forecast_type strings: up to MaxWords words joined by spaces, in
\* lower case, in upper case, and capitalised
ForecastStrings ==
    LET Words == { Chars("contract"), Chars("regulatory"), Chars("time"),
                   Chars("schedule"), Chars("guidance"), Chars("strategy"),
                   Chars("other") }
        Join(ws) == Flatten([i \in 1..Len(ws) |->
                                IF i = 1 THEN ws[i] ELSE <<" ">> \o ws[i]])
        Lowered == { Join(ws) : ws \in UNION { [1..k -> Words] : k \in 1..MaxWords } }
    IN  UNION { {r, Upper(r), [r EXCEPT ![1] = UpperChar(r[1])]} : r \in Lowered }

InitForecast ==
    /\ pc = "item"
    /\ extractor \in {"annual", "quarterly", "sec_10q"}
    /\ readable = TRUE
    /\ metadata = PipelineMetadata
    /\ candidates = <<1>>
    /\ file_path = "local.pdf"
    /\ batches = <<<<1>>>>
    /\ batch_num = 1
    /\ attempt = 0
    /\ resp = <<>>
    /\ items = <<>>
    /\ results = <<>>
    /\ global_idx = 1
    /\ exc = "none"
    /\ run_result = NoneVal
    /\ \E raw \in ForecastStrings :
        cur_item = [EmptyDict EXCEPT !.forecast_type = Str(raw)]
    /\ exchange = <<>>
    /\ filing_type = <<>>
    /\ api_key = "set"
    /\ file_url = None
    /\ fs = {"local.pdf"}
    /\ tmp_path = None
    /\ persisted = <<>>
    /\ pf_return = None
    /\ elems = <<>>
    /\ sections = <<>>
    /\ retries = Retries

SpecForecast == InitForecast /\ [][NormalizeOne]_vars

(***************************************************************************)
(* The front half of extract(): layout elements -> sections -> candidate   *)
(* sentences.  An element is [category, text]; a section is                *)
(* [heading, text] whose text is the sequence of element texts that the    *)
(* code joins with newlines.  The regular expressions are modelled by      *)
(* their literal patterns, searched case-insensitively as substrings.      *)
(***************************************************************************)
MaxElems == 4

\* the stop test of the segmenter's filter loop: STOP_AFTER (annual),
\* STOP_TRIGGER (quarterly); the investor segmenter has none
IsStopHeading(ex, h) ==
    LET low == Lower(Chars(h))
    IN  IF ex = "annual"
        THEN \/ Contains(low, Chars("notes to the financial statements"))
             \/ Contains(low, Chars("corporate governance statement"))
        ELSE IF ex = "quarterly"
        THEN Contains(low, Chars("quarterly cash flow report"))
        ELSE FALSE

\* the exclusion test: DROP_HEADINGS (annual, investor), EXCLUDE_HEADINGS
\* (quarterly, an exact match)
IsDropHeading(ex, h) ==
    LET low == Lower(Chars(h))
    IN  IF ex = "annual"
        THEN \/ Contains(low, Chars("website"))
             \/ Contains(low, Chars("warrants"))
        ELSE IF ex = "quarterly"
        THEN h \in {"Tenement Interest Notes:", "Competent Person's Statement"}
        ELSE \/ Contains(low, Chars("website"))
             \/ Contains(low, Chars("disclaimer"))

\* a plausible slip: a Title closes the section without the "if current" test
RECURSIVE RawSectionsAlwaysFlush(_, _, _, _)
RawSectionsAlwaysFlush(es, secs, current, heading) ==
    IF es = <<>>
    THEN IF current # <<>>
         THEN Append(secs, [heading |-> heading, text |-> current])
         ELSE secs
    ELSE LET elem == Head(es)
         IN  IF elem.category = "Title"
             THEN RawSectionsAlwaysFlush(Tail(es),
                              Append(secs, [heading |-> heading, text |-> current]),
                              <<>>, elem.text)
             ELSE IF elem.category \in {"NarrativeText", "ListItem"} /\ elem.text # ""
             THEN RawSectionsAlwaysFlush(Tail(es), secs, Append(current, elem.text), heading)
             ELSE RawSectionsAlwaysFlush(Tail(es), secs, current, heading)

\* the element loop of _parse_sections: a Title closes the current section
\* only when it has body text; blank texts and other categories are skipped
RECURSIVE RawSections(_, _, _, _)
RawSections(es, secs, current, heading) ==
    IF es = <<>>
    THEN IF current # <<>>
         THEN Append(secs, [heading |-> heading, text |-> current])
         ELSE secs
    ELSE LET elem == Head(es)
         IN  IF elem.category = "Title"
             THEN RawSections(Tail(es),
                              IF current # <<>>
                              THEN Append(secs, [heading |-> heading, text |-> current])
                              ELSE secs,
                              <<>>, elem.text)
             ELSE IF elem.category \in {"NarrativeText", "ListItem"} /\ elem.text # ""
             THEN RawSections(Tail(es), secs, Append(current, elem.text), heading)
             ELSE RawSections(Tail(es), secs, current, heading)

\* a plausible slip: the exclusion filter is left out
_parse_sections_keep_all(ex, es) ==
    LET raw == RawSections(es, <<>>, <<>>, "Unknown")
        stops == { i \in 1..Len(raw) : IsStopHeading(ex, raw[i].heading) }
        last == IF stops = {} THEN Len(raw)
                ELSE (CHOOSE i \in stops : \A j \in stops : i <= j) - 1
    IN  SubSeq(raw, 1, last)

\* _parse_sections: the sections before the first one whose heading matches
\* the stop test, without those whose heading matches the exclusion test
_parse_sections(ex, es) ==
    LET raw == RawSections(es, <<>>, <<>>, "Unknown")
        stops == { i \in 1..Len(raw) : IsStopHeading(ex, raw[i].heading) }
        last == IF stops = {} THEN Len(raw)
                ELSE (CHOOSE i \in stops : \A j \in stops : i <= j) - 1
        Keep(sec) == ~IsDropHeading(ex, sec.heading)
    IN  SelectSeq(SubSeq(raw, 1, last), Keep)

\* doc.sents of one element text, each sentence stripped
SentencesOf(t) ==
    IF t = "t1"
    THEN <<"Alpha expects FDA approval in 2025.", "",
           "Beta was founded in Perth in 1990.">>
    ELSE IF t = "t2"
    THEN <<"Gamma plans a new mine.", "Alpha expects FDA approval in 2025.",
           "Outlook improves.">>
    ELSE IF t = "t3"
    THEN <<"Delta plans a merger", "Delta plans mergers">>
    ELSE <<>>

\* keyword_processor.extract_keywords(s) is non-empty
HasKeyword(s) ==
    LET low == Lower(Chars(s))
    IN  \/ Contains(low, Chars("expects"))
        \/ Contains(low, Chars("plans"))
        \/ Contains(low, Chars("outlook"))

\* the prefilter: the PDF extractors filter the sentences of the joined
\* section texts and dedupe; the 10-Q extractor filters each section (more
\* than 20 characters, a keyword, not seen in this section) and dedupes the
\* concatenation
_extract_candidates(ex, secs) ==
    LET sents(sec) == Flatten([i \in 1..Len(sec.text) |-> SentencesOf(sec.text[i])])
        KeepPdf(x) == x # "" /\ HasKeyword(x)
        KeepSec(x) == x # "" /\ Len(x) > 20 /\ HasKeyword(x)
    IN  IF ex = "sec_10q"
        THEN Dedupe(Flatten([i \in 1..Len(secs) |->
                        DedupeFrom(SelectSeq(sents(secs[i]), KeepSec), {})]))
        ELSE Dedupe(SelectSeq(Flatten([i \in 1..Len(secs) |-> sents(secs[i])]),
                              KeepPdf))

\* the layout elements of a document, per extractor: a plain title, an
\* excluded title, a stop title, body texts, a blank text, a table
ElemInputs(ex) ==
    LET titles == IF ex = "quarterly"
                  THEN {"Outlook", "Tenement Interest Notes:",
                        "Quarterly Cash Flow Report"}
                  ELSE {"Outlook", "Website", "Notes to the Financial Statements"}
        alphabet == { [category |-> "Title", text |-> h] : h \in titles }
                    \cup { [category |-> "NarrativeText", text |-> t] :
                               t \in {"t1", "t2", ""} }
                    \cup { [category |-> "Table", text |-> "t1"] }
    IN  UNION { [1..n -> alphabet] : n \in 0..MaxElems }

\* item_pattern matches the line: "item", blanks, a digit, ...
IsItemHeader(line) ==
    LET low == Lower(Chars(line))
    IN  /\ Len(low) >= 6
        /\ SubSeq(low, 1, 5) = Chars("item ")
        /\ low[6] \in {"0", "1", "2", "3", "4", "5", "6", "7", "8", "9"}

\* SECExtractor._parse_sections_from_html on the lines of soup.get_text: one
\* section per item header whose content is non-empty and whose title
\* holds an IMPORTANT_SECTIONS entry; the content runs to the next header, or
\* for the last header to the first SIGNATURES line of the text (else to the
\* end); with no section kept, one FULL_DOCUMENT section of all the words
_parse_sections_from_html(lines) ==
    LET n == Len(lines)
        matches == { i \in 1..n : IsItemHeader(lines[i]) }
        sigs == { i \in 1..n : Lower(Chars(lines[i])) \in {Chars("signature"), Chars("signatures")} }
        sig == IF sigs = {} THEN n + 1 ELSE CHOOSE i \in sigs : \A j \in sigs : i <= j
        later(i) == { j \in matches : j > i }
        end(i) == IF later(i) # {} THEN CHOOSE j \in later(i) : \A k \in later(i) : j <= k
                  ELSE sig
        content(i) == SubSeq(lines, i + 1, end(i) - 1)
        important(i) == LET title == Lower(Chars(lines[i]))
                        IN  \/ Contains(title, Chars("risk factors"))
                            \/ Contains(title, Chars("results of operations"))
                            \/ Contains(title, Chars("outlook"))
        Kept(i) == content(i) # <<>> /\ important(i)
        idx == SelectSeq([i \in 1..n |-> i], LAMBDA i : i \in matches /\ Kept(i))
    IN  IF idx # <<>>
        THEN [k \in 1..Len(idx) |-> [heading |-> lines[idx[k]], text |-> content(idx[k])]]
        ELSE << [heading |-> "FULL_DOCUMENT", text |-> lines] >>

\* the text lines of a 10-Q: an important item header, another item header,
\* the SIGNATURES line, body lines
HtmlInputs ==
    LET alphabet == {"Item 1A. Risk Factors", "Item 4. Controls and Procedures",
                     "SIGNATURES", "t1", "t2", "t3"}
    IN  UNION { [1..n -> alphabet] : n \in 0..MaxElems }

\* sections = self._parse_sections(file_path); if not sections: return []
ParseSections ==
    /\ pc = "segment"
    /\ IF extractor = "sec_10q"
       THEN sections' = _parse_sections_from_html(elems)
       ELSE sections' = _parse_sections(extractor, elems)
    /\ IF sections' = <<>>
       THEN pc' = "returned" /\ results' = <<>>
       ELSE pc' = "prefilter" /\ UNCHANGED results
    /\ UNCHANGED <<extractor, readable, metadata, candidates, batches, batch_num,
                   attempt, resp, items, global_idx, exc, run_result, file_path,
                   cur_item, pipeline_vars, elems, retries>>

\* candidates = self._extract_candidates(sections);
\* if not candidates: return []
ExtractCandidates ==
    /\ pc = "prefilter"
    /\ candidates' = _extract_candidates(extractor, sections)
    /\ IF candidates' = <<>>
       THEN pc' = "returned" /\ results' = <<>>
       ELSE pc' = "run" /\ UNCHANGED results
    /\ UNCHANGED <<extractor, readable, metadata, batches, batch_num,
                   attempt, resp, items, global_idx, exc, run_result, file_path,
                   cur_item, pipeline_vars, doc_vars, retries>>

InitFront ==
    /\ pc = "segment"
    /\ extractor \in {"annual", "quarterly", "investor", "sec_10q"}
    /\ elems \in (IF extractor = "sec_10q" THEN HtmlInputs ELSE ElemInputs(extractor))
    /\ sections = <<>>
    /\ retries = Retries
    /\ readable = TRUE
    /\ metadata = PipelineMetadata
    /\ file_path = "local.pdf"
    /\ candidates = <<>>
    /\ batches = <<>>
    /\ batch_num = 1
    /\ attempt = 0
    /\ resp = <<>>
    /\ items = <<>>
    /\ results = <<>>
    /\ global_idx = 1
    /\ exc = "none"
    /\ run_result = NoneVal
    /\ cur_item = EmptyDict
    /\ exchange = <<>>
    /\ filing_type = <<>>
    /\ api_key = "set"
    /\ file_url = None
    /\ fs = {"local.pdf"}
    /\ tmp_path = None
    /\ persisted = <<>>
    /\ pf_return = None

SpecFront == InitFront /\ [][ParseSections \/ ExtractCandidates]_vars

(***************************************************************************)
(* _retry_call for any retries >= 1: the batch loop with a model that      *)
(* either fails or echoes the batch.                                       *)
(***************************************************************************)
MaxRetries == 3

InitRetry ==
    /\ pc = "run"
    /\ retries \in 1..MaxRetries
    /\ extractor \in Extractors
    /\ readable = TRUE
    /\ metadata = PipelineMetadata
    /\ \E n \in 1..MaxCand : candidates = [i \in 1..n |-> i]
    /\ file_path = "local.pdf"
    /\ batches = <<>>
    /\ batch_num = 0
    /\ attempt = 0
    /\ resp = <<>>
    /\ items = <<>>
    /\ results = <<>>
    /\ global_idx = 1
    /\ exc = "none"
    /\ run_result = NoneVal
    /\ cur_item = EmptyDict
    /\ exchange = <<>>
    /\ filing_type = <<>>
    /\ api_key = "set"
    /\ file_url = None
    /\ fs = {"local.pdf"}
    /\ tmp_path = None
    /\ persisted = <<>>
    /\ pf_return = None
    /\ elems = <<>>
    /\ sections = <<>>

NextRetry ==
    \/ BuildBatches
    \/ RetrySleep
    \/ RetryCallFail
    \/ RetryBackoff
    \/ ProcessEcho

\* every statement of the loop is executed once it is reached
SpecRetry == InitRetry /\ [][NextRetry]_vars /\ WF_vars(NextRetry)

(***************************************************************************)
(* Properties.                                                             *)
(***************************************************************************)

\* C1: when the remote call of batch k fails on every retry, the batch adds
\* no record, the remaining batches are still classified, and the records of
\* the earlier batches are in the list run() returns.  Stated on the final
\* state: every record the batch loop produced is in run()'s list.
C1_BatchFailureContained ==
    (pc = "done" /\ run_result.some) =>
        /\ Len(run_result.v) >= Len(results)
        /\ \A i \in 1..Len(results) : run_result.v[i] = results[i]

\* C2: for the annual, quarterly and 10-Q extractors the batches are
\* contiguous slices of the candidate list, in order, and their concatenation
\* is the whole list: the truncation to num_batches discards no candidate.
C2_BatchesCoverCandidates ==
    (extractor # "investor" /\ pc # "run") => Flatten(batches) = candidates

C2_Witness ==
    /\ pc = "sleep"
    /\ extractor = "sec_10q"
    /\ Len(candidates) = 95
    /\ Len(batches) = 8
    /\ Len(batches[8]) = 11

\* C3: for the annual, quarterly and 10-Q extractors the number of batches
\* built from n >= 1 candidates is 1 for n <= 10, 2 for 11-29, 3 for 30-49,
\* 5 for 50-69, 6 for 70-79, 7 for 80-89, 8 for 90-99 and 9 from 100 on.
C3_BatchCountTable ==
    (extractor # "investor" /\ pc = "sleep") =>
        LET n == Len(candidates)
        IN  Len(batches) =
                CASE n <= 10 -> 1
                  [] n >= 11 /\ n <= 29 -> 2
                  [] n >= 30 /\ n <= 49 -> 3
                  [] n >= 50 /\ n <= 69 -> 5
                  [] n >= 70 /\ n <= 79 -> 6
                  [] n >= 80 /\ n <= 89 -> 7
                  [] n >= 90 /\ n <= 99 -> 8
                  [] n >= 100 -> 9

C3_Witness ==
    /\ pc = "sleep"
    /\ extractor = "annual"
    /\ Len(candidates) = 100
    /\ Len(batches) = 9

\* C4: the i-th record of a result list has sentence id "s" followed by i:
\* ids are unique, start at s1 and have no gaps, in batch order and then item
\* order; a dropped item consumes no id.
C4_SentenceIdsSequential ==
    /\ \A i \in 1..Len(results) : results[i].sentence_id = [prefix |-> "s", n |-> i]
    /\ run_result.some =>
        \A i \in 1..Len(run_result.v) :
            run_result.v[i].sentence_id = [prefix |-> "s", n |-> i]

C4_Witness ==
    /\ pc = "done"
    /\ Len(batches) = 2
    /\ Len(items) = 2
    /\ items[1].m = "c" /\ items[2].m = "b"
    /\ Len(run_result.v) = 3
    /\ run_result.v[3].sentence_id.n = 3

\* C5: an item that fails normalisation or validation drops only that item:
\* a batch appends the records of exactly its valid items, in item order,
\* whatever invalid items stand before or after them, and the loop goes on
\* to the next batch.
C5_ItemDropIsLocal ==
    [][(pc = "call" /\ pc' \in {"sleep", "returned"}) =>
        LET its == items'
            kept == SelectSeq(its, LAMBDA it :
                        /\ it.k = "obj"
                        /\ NormalizeDict(extractor, ItemOf(it.m), metadata,
                                         file_path, 0).ok)
            base == Len(results)
        IN  /\ Len(results') = base + Len(kept)
            /\ SubSeq(results', 1, base) = results
            /\ \A j \in 1..Len(kept) :
                /\ results'[base + j].text = clean_text(ItemOf(kept[j].m).text)
                /\ results'[base + j].score = PyInt(ItemOf(kept[j].m).score).v
            /\ exc' = "none"
            /\ pc' = IF batch_num' > Len(batches) THEN "returned" ELSE "sleep"
      ]_vars

C5_Witness ==
    /\ pc = "sleep"
    /\ batch_num = 2
    /\ Len(items) = 2
    /\ items[1].m = "c" /\ items[2].m = "a"
    /\ Len(results) = 1
    /\ results[1].score = 7

\* C6: for any response text (empty, without "[" or "]", with the last "]"
\* before the first "[", or with a bracketed block that is not valid JSON)
\* the two JSON helpers raise nothing and the batch yields an empty item
\* list: the records of earlier batches are kept and the loop goes on.
C6_MalformedResponseContained ==
    [][(/\ pc = "call"
        /\ pc' # "backoff"
        /\ exc' # "ExtractionError"
        /\ LET text == resp'
               blk == _extract_json_block(text)
           IN  \/ text = <<>>
               \/ Find(text, "[") = -1
               \/ Find(text, "]") = -1
               \/ RFind(text, "]") < Find(text, "[")
               \/ blk.some /\ ~JsonLoads(blk.v).ok)
       => /\ exc' = "none"
          /\ items' = <<>>
          /\ results' = results
          /\ global_idx' = global_idx
          /\ batch_num' > batch_num
          /\ pc' = IF batch_num' > Len(batches) THEN "returned" ELSE "sleep"
      ]_vars

C6_Witness ==
    /\ pc = "sleep"
    /\ batch_num = 2
    /\ resp = <<"[", "x", "]">>
    /\ items = <<>>
    /\ results = <<>>

\* C7: every record has an integer score from 1 to 10; an item whose score
\* is out of range (0, 11) or not numeric is dropped; an item without a
\* score key gets score 5.
C7_ScoreInRange ==
    /\ \A i \in 1..Len(results) : results[i].score \in 1..10
    /\ pc = "item_done" =>
        /\ (cur_item.score.p \in {"str", "null"}) => results = <<>>
        /\ (cur_item.score.p \in {"int", "numstr"} /\ cur_item.score.v \notin 1..10)
               => results = <<>>
        /\ (cur_item.score.p = "missing" /\ results # <<>>) => results[1].score = 5

C7_Witness ==
    /\ pc = "item_done"
    /\ cur_item.score.p = "missing"
    /\ Len(results) = 1
    /\ results[1].score = 5

\* C8: BaseExtractor.run never raises and never returns null: it returns the
\* empty list when extract raised anything, and exactly extract's list
\* otherwise.
C8_RunNeverRaises ==
    [][(pc \in {"returned", "raised"} /\ pc' = "done") =>
        /\ exc' = "none"
        /\ run_result'.some
        /\ run_result'.v = IF pc = "returned" THEN results ELSE <<>>
      ]_vars

C8_Witness ==
    /\ pc = "done"
    /\ exc = "none"
    /\ run_result = Some(<<>>)
    /\ Len(results) = 2

\* C9: for an (exchange, filing_type) pair that is not registered after
\* normalisation, get_extractor_instance raises KeyError and process_file lets
\* it propagate: nothing is extracted and nothing is persisted.
C9_UnregisteredPropagates ==
    LET unregistered ==
            ~RegistryHas(Upper(exchange), MappingGet(Upper(filing_type), filing_type))
    IN  unregistered =>
            /\ pc \notin {"pf_run", "cleanup", "persist", "pf_done"}
            /\ ~run_result.some
            /\ persisted = <<>>
            /\ pf_return = None
            /\ (pc = "pf_raised" /\ tmp_path # None) => exc = "KeyError"

C9_Witness ==
    /\ pc = "pf_raised"
    /\ exc = "KeyError"
    /\ exchange = S_ASX
    /\ filing_type = Chars("unknown_type")
    /\ api_key = "set"
    /\ tmp_path = DownloadPath
    /\ persisted = <<>>

\* C10: every key of the synonym mapping (ANNUAL, ASX_ANNUAL, QUARTERLY,
\* ASX_QUARTERLY, INVESTOR_PRESENTATION, INVESTOR, 10-Q, 10Q), in any letter
\* case and with the matching exchange, finds a registered extractor, and
\* synonyms resolve to the same class.
C10_SynonymsResolve ==
    LET k == Upper(filing_type)
        sec == k \in {Chars("10-Q"), Chars("10Q")}
        expected ==
            CASE k \in {Chars("ANNUAL"), Chars("ASX_ANNUAL")} -> "annual"
              [] k \in {Chars("QUARTERLY"), Chars("ASX_QUARTERLY")} -> "quarterly"
              [] k \in {Chars("INVESTOR_PRESENTATION"), Chars("INVESTOR")} -> "investor"
              [] OTHER -> "sec_10q"
    IN  (/\ pc # "dispatch"
         /\ api_key = "set"
         /\ k \in MappingKeys
         /\ Upper(exchange) = IF sec THEN S_SEC ELSE S_ASX)
        => exc = "none" /\ extractor = expected

\* C11: in each extractor, 12 candidates echoed back by the model with impact
\* MED, tone neutral, forecast_type "guidance" and score 5 give exactly 12
\* records, in candidate order, with sentence ids s1..s12 and forecast type
\* GUIDANCE.
C11_EchoTwelve ==
    (pc = "done" /\ Len(candidates) = 12) =>
        /\ run_result.some
        /\ Len(run_result.v) = 12
        /\ \A i \in 1..12 :
            /\ run_result.v[i].text = <<CandidateText(i)>>
            /\ run_result.v[i].sentence_id = [prefix |-> "s", n |-> i]
            /\ run_result.v[i].forecast_type = "GUIDANCE"

\* C12: in the annual, quarterly and 10-Q extractors the raw forecast_type
\* string gets the value of the first matching rule in the fixed order:
\* "contract", then "regul", then "time" or "sched", then the extractor's
\* extra rules (annual: "guidance", then "strategy"), else HINTS; a string
\* matching several rules gets the earliest rule's value, and letter case is
\* ignored.
C12_FirstRuleWins ==
    pc = "item_done" =>
        LET raw == Lower(cur_item.forecast_type.s)
            has(w) == Contains(raw, Chars(w))
            expected ==
                IF has("contract") THEN "CONTRACTUAL"
                ELSE IF has("regul") THEN "REGULATORY"
                ELSE IF has("time") \/ has("sched") THEN "TIMING"
                ELSE IF extractor = "annual" /\ has("guidance") THEN "GUIDANCE"
                ELSE IF extractor = "annual" /\ has("strategy") THEN "STRATEGY"
                ELSE "HINTS"
        IN  /\ Len(results) = 1
            /\ results[1].forecast_type = expected

C12_Witness ==
    /\ pc = "item_done"
    /\ extractor = "sec_10q"
    /\ cur_item.forecast_type.s = Upper(Chars("regulatory contract schedule"))
    /\ Len(results) = 1
    /\ results[1].forecast_type = "CONTRACTUAL"

\* C13: the candidate list of every prefilter has no two equal strings, holds
\* exactly the matching sentences in the order of their first occurrence in
\* the document, and is stable: prefiltering again gives the same list and
\* deduplicating it changes nothing.
C13_PrefilterDistinctStable ==
    (pc \in {"run", "returned"} /\ sections # <<>>) =>
        LET all == Flatten([i \in 1..Len(sections) |->
                       Flatten([j \in 1..Len(sections[i].text) |->
                                   SentencesOf(sections[i].text[j])])])
            Matches(x) == /\ x # ""
                          /\ HasKeyword(x)
                          /\ (extractor = "sec_10q" => Len(x) > 20)
            First(x) == CHOOSE i \in 1..Len(all) :
                            all[i] = x /\ \A j \in 1..(i - 1) : all[j] # x
            n == Len(candidates)
        IN  /\ \A i, j \in 1..n : i # j => candidates[i] # candidates[j]
            /\ { candidates[i] : i \in 1..n }
                   = { all[i] : i \in { k \in 1..Len(all) : Matches(all[k]) } }
            /\ \A i, j \in 1..n : i < j => First(candidates[i]) < First(candidates[j])
            /\ _extract_candidates(extractor, sections) = candidates
            /\ Dedupe(candidates) = candidates

C13_Witness ==
    /\ pc = "run"
    /\ extractor = "annual"
    /\ Len(sections) = 2
    /\ sections[1].text = <<"t1">>
    /\ sections[2].text = <<"t2">>
    /\ candidates = <<"Alpha expects FDA approval in 2025.",
                      "Gamma plans a new mine.", "Outlook improves.">>

\* C14: in the annual and quarterly segmenters, when some title element
\* matches the stop trigger, the section list has no section for that heading
\* and every section in it was built from the elements before that title,
\* whether or not the stop heading has body text.
C14_StopTruncates ==
    (pc # "segment" /\ extractor \in {"annual", "quarterly"}) =>
        \A k \in 1..Len(elems) :
            (elems[k].category = "Title" /\ IsStopHeading(extractor, elems[k].text)) =>
                LET before == RawSections(SubSeq(elems, 1, k - 1), <<>>, <<>>, "Unknown")
                IN  \A i \in 1..Len(sections) :
                        /\ sections[i].heading # elems[k].text
                        /\ \E j \in 1..Len(before) : before[j] = sections[i]

\* C15: in the PDF segmenters no section of the output has an excluded
\* heading, every non-excluded section before the stop trigger is in the
\* output in its original order, and a document whose sections all have
\* excluded headings gives the empty section list, on which extract returns
\* the empty list before any batch is built or any remote call is made.
C15_ExcludedDropped ==
    (pc # "segment" /\ extractor \in {"annual", "quarterly", "investor"}) =>
        LET raw == RawSections(elems, <<>>, <<>>, "Unknown")
            Stop(i) == IsStopHeading(extractor, raw[i].heading)
            Drop(i) == IsDropHeading(extractor, raw[i].heading)
            kept == { i \in 1..Len(raw) :
                        ~Drop(i) /\ \A j \in 1..i : ~Stop(j) }
        IN  /\ \A i \in 1..Len(sections) :
                   ~IsDropHeading(extractor, sections[i].heading)
            /\ \A i \in kept : \E j \in 1..Len(sections) : sections[j] = raw[i]
            /\ \A i1, i2 \in kept :
                   i1 < i2 => \E j1, j2 \in 1..Len(sections) :
                                  /\ j1 < j2
                                  /\ sections[j1] = raw[i1]
                                  /\ sections[j2] = raw[i2]
            /\ (\A i \in 1..Len(raw) : Drop(i)) =>
                   /\ sections = <<>>
                   /\ pc = "returned"
                   /\ results = <<>>
                   /\ batches = <<>>
                   /\ attempt = 0

C15_Witness ==
    /\ pc = "prefilter"
    /\ extractor = "quarterly"
    /\ elems = << [category |-> "NarrativeText", text |-> "t1"],
                  [category |-> "Title", text |-> "Tenement Interest Notes:"],
                  [category |-> "NarrativeText", text |-> "t2"],
                  [category |-> "Title", text |-> "Outlook"] >>
    /\ sections = << [heading |-> "Unknown", text |-> <<"t1">>] >>

\* C16: for every array, the response that wraps it in a json code fence and
\* puts a trailing comma before every "}" and before the "]" is parsed by
\* _extract_json_block and _safe_json_load into the item list of the clean
\* array: one item per element, in order, with the same members.
C16_FencedSameAsClean ==
    \A a \in ItemSeqs :
        (pc \in {"sleep", "returned"} /\ resp = RenderFenced(a)) =>
            /\ items = ItemsOrEmpty(_safe_json_load(_extract_json_block(Render(a))).val)
            /\ Len(items) = Len(a)
            /\ \A i \in 1..Len(a) :
                   items[i] = IF a[i] = "1" THEN [k |-> "num", m |-> ""]
                              ELSE [k |-> "obj", m |-> a[i]]

C16_Witness ==
    /\ pc = "sleep"
    /\ resp = RenderFenced(<<"a", "b">>)
    /\ items = << [k |-> "obj", m |-> "a"], [k |-> "obj", m |-> "b"] >>
    /\ Len(results) = 2

\* C17: every remote call is preceded by the fixed wait.  The call is the
\* step that leaves "call"; "call" is entered only by the wait of
\* _retry_call, and a call never leads straight to another call, so between
\* two successive calls (two attempts of a batch, or two batches) a wait
\* occurs.
C17_WaitBeforeCall ==
    [][/\ (pc' = "call" /\ pc # "call") => pc = "sleep"
       /\ (pc = "call" /\ pc' # pc) => pc' \in {"sleep", "backoff", "returned", "raised"}
      ]_vars

C17_Witness ==
    /\ pc = "call"
    /\ batch_num = 2
    /\ attempt = 1
    /\ Len(results) = 2

\* C18: _retry_call(fn, retries = r) with r >= 1 makes its calls in the
\* attempts 0..r-1, so at most r calls; a successful call ends it (the loop
\* goes on to the next batch with a fresh attempt counter); the backoff
\* delay is waited only after a failed attempt that is not the last; the
\* r-th failure raises (ExtractionError out of _ask_llm); and the loop always
\* terminates.
C18_BoundedRetry ==
    /\ [][/\ attempt < retries /\ attempt' < retries
          /\ (pc = "call" /\ pc' \in {"sleep", "returned"}) =>
                 /\ attempt' = 0
                 /\ batch_num' > batch_num
          /\ (pc # "backoff" /\ pc' = "backoff") =>
                 /\ pc = "call"
                 /\ attempt < retries - 1
          /\ (pc = "backoff" /\ pc' # "backoff") =>
                 /\ pc' = "sleep"
                 /\ attempt' = attempt + 1
                 /\ batch_num' = batch_num
          /\ (pc = "call" /\ pc' = "raised") =>
                 /\ attempt = retries - 1
                 /\ exc' = "ExtractionError"
          /\ (pc = "call" /\ attempt = retries - 1 /\ pc' \notin {"call", "sleep", "returned"}) =>
                 pc' = "raised"
         ]_vars
    /\ <>(pc \in {"returned", "raised"})

C18_Witness ==
    /\ pc = "raised"
    /\ exc = "ExtractionError"
    /\ retries = 1
    /\ attempt = 0
    /\ batch_num = 2
    /\ Len(results) > 0

\* C19: when the document is missing (the path does not exist and the
\* download fails), process_file does not raise to its caller: it returns a
\* result with an empty items list and count 0.
C19_MissingDocEmptyResult ==
    file_url = "http://bad" =>
        /\ pc # "pf_raised"
        /\ pc = "pf_done" => (pf_return.count = 0 /\ pf_return.items = <<>>)

\* C20: every record process_file returns carries the doc_id and the
\* filing_date that were passed to process_file.
C20_RecordsCarryFilingDate ==
    pc = "pf_done" =>
        \A i \in 1..Len(pf_return.items) :
            /\ pf_return.items[i].doc_id = "D1"
            /\ pf_return.items[i].filing_date = "2025-11-03"

\* C21: for n >= 1 candidates in the annual, quarterly and 10-Q extractors
\* no batch is empty, every batch but the last has exactly
\* ceil(n / batch_count) sentences, the last has between 1 and that many, and
\* the sizes never increase along the list.
C21_BatchSizes ==
    (extractor # "investor" /\ pc = "sleep") =>
        LET n == Len(candidates)
            c == Len(batches)
            size == (n + c - 1) \div c
        IN  /\ c >= 1
            /\ \A k \in 1..c : Len(batches[k]) >= 1
            /\ \A k \in 1..(c - 1) : Len(batches[k]) = size
            /\ Len(batches[c]) <= size
            /\ \A k \in 1..(c - 1) : Len(batches[k]) >= Len(batches[k + 1])

C21_Witness ==
    /\ pc = "sleep"
    /\ extractor = "quarterly"
    /\ Len(candidates) = 61
    /\ Len(batches) = 5
    /\ Len(batches[1]) = 13
    /\ Len(batches[5]) = 9

\* C22: in every extractor a tone or impact string that differs from an enum
\* value only in letter case is coerced to it and the item is kept: an item
\* is kept whenever the same item with tone lowercased and impact uppercased
\* is kept, and its record then has that tone and impact.
C22_EnumCaseInsensitive ==
    pc = "item_done" =>
        LET Fold(v, F(_)) == IF v.p = "str" THEN Str(F(v.s)) ELSE v
            folded == [cur_item EXCEPT !.tone = Fold(cur_item.tone, Lower),
                                       !.impact = Fold(cur_item.impact, Upper)]
            r == NormalizeDict(extractor, folded, metadata, file_path, 1)
        IN  r.ok => /\ Len(results) = 1
                    /\ results[1].tone = r.rec.tone
                    /\ results[1].impact = r.rec.impact

\* C23: the 10-Q prefilter keeps a keyword-matching sentence if and only if
\* it has at least 20 characters: one of exactly 20 characters is kept.
C23_MinLengthTwenty ==
    (extractor = "sec_10q" /\ pc \in {"run", "returned"} /\ sections # <<>>) =>
        \A i \in 1..Len(sections) : \A j \in 1..Len(sections[i].text) :
            LET sents == SentencesOf(sections[i].text[j])
            IN  \A k \in 1..Len(sents) :
                    (sents[k] # "" /\ HasKeyword(sents[k])) =>
                        ((\E c \in 1..Len(candidates) : candidates[c] = sents[k])
                            <=> Len(sents[k]) >= 20)

\* C24: the investor-presentation extractor batches like the quarterly
\* extractor: for every n >= 1 the same number of batches with the same
\* sizes as the step table with ceil-division slicing gives.
C24_InvestorBatchesLikeQuarterly ==
    (extractor = "investor" /\ pc = "sleep") =>
        LET q == MakeBatches("quarterly", candidates)
        IN  /\ Len(batches) = Len(q)
            /\ \A k \in 1..Len(q) : Len(batches[k]) = Len(q[k])

\* C25: in the investor extractor a raw forecast_type matching a substring
\* rule (contract, regul, time or sched) decides the record's forecast_type;
\* the category of the first categories_matched entry (STRATEGY when there
\* is none) is used only when no substring rule matches.
C25_InvestorRulesBeforeCategory ==
    (pc = "item_done" /\ extractor = "investor" /\ Len(results) = 1) =>
        LET ft == Get(cur_item.forecast_type, <<>>)
            rule == IF ft.p = "str" THEN ForecastOf("investor", Lower(ft.s)) ELSE "HINTS"
            cats == IF cur_item.categories_matched.p = "missing" THEN <<>>
                    ELSE cur_item.categories_matched.v
        IN  results[1].forecast_type =
                IF rule # "HINTS" THEN rule
                ELSE IF cats # <<>> THEN InvestorCategory(cats[1])
                ELSE "STRATEGY"

\* C26: the HTML segmenter returns the single FULL_DOCUMENT section exactly
\* when the text has no item header; when some item header is followed by
\* non-empty text, the output is the item sections sliced between consecutive
\* headers, the last ending at the SIGNATURES line or the end of the text.
C26_FullDocumentOnlyWithoutHeaders ==
    (extractor = "sec_10q" /\ pc # "segment") =>
        LET n == Len(elems)
            hdrs == { i \in 1..n : IsItemHeader(elems[i]) }
            Stop(j) == j \in hdrs \/ elems[j] = "SIGNATURES"
            body(i) == { j \in (i + 1)..n : \A k \in (i + 1)..j : ~Stop(k) }
            filled == { i \in hdrs : body(i) # {} }
        IN  /\ (sections = << [heading |-> "FULL_DOCUMENT", text |-> elems] >>)
                   <=> hdrs = {}
            /\ filled # {} =>
                   /\ Len(sections) = Cardinality(filled)
                   /\ \A k \in 1..Len(sections) :
                          \E i \in filled :
                              /\ sections[k].heading = elems[i]
                              /\ sections[k].text = [j \in 1..Cardinality(body(i)) |-> elems[i + j]]
                              /\ Cardinality({ h \in filled : h < i }) = k - 1

\* C27: before post-filtering, the PDF segmenter puts every non-empty
\* narrative or list element in exactly one section, under the most recent
\* preceding title ("Unknown" when there is none), in document order, and a
\* section is emitted only for accumulated text: a title followed directly
\* by another title or by the end of the document produces no section.
C27_ElementsUnderLatestTitle ==
    (pc # "segment" /\ extractor \in {"annual", "quarterly", "investor"}) =>
        LET raw == RawSections(elems, <<>>, <<>>, "Unknown")
            n == Len(elems)
            IsText(i) == elems[i].category \in {"NarrativeText", "ListItem"}
                             /\ elems[i].text # ""
            texts == SelectSeq([i \in 1..n |-> i], IsText)
            titles(i) == { j \in 1..(i - 1) : elems[j].category = "Title" }
            TitleOf(i) == IF titles(i) = {} THEN 0
                          ELSE CHOOSE j \in titles(i) : \A k \in titles(i) : k <= j
            HeadingOf(i) == IF TitleOf(i) = 0 THEN "Unknown" ELSE elems[TitleOf(i)].text
            starts == { k \in 1..Len(texts) :
                          k = 1 \/ TitleOf(texts[k]) # TitleOf(texts[k - 1]) }
        IN  /\ Flatten([s \in 1..Len(raw) |-> raw[s].text])
                   = [k \in 1..Len(texts) |-> elems[texts[k]].text]
            /\ Len(raw) = Cardinality(starts)
            /\ \A s \in 1..Len(raw) :
                   /\ raw[s].text # <<>>
                   /\ \E k \in starts :
                          /\ Cardinality({ h \in starts : h < k }) = s - 1
                          /\ raw[s].heading = HeadingOf(texts[k])
            /\ sections = _parse_sections(extractor, elems)

C27_Witness ==
    /\ pc = "prefilter"
    /\ extractor = "investor"
    /\ elems = << [category |-> "NarrativeText", text |-> "t1"],
                  [category |-> "Title", text |-> "Website"],
                  [category |-> "Title", text |-> "Outlook"],
                  [category |-> "NarrativeText", text |-> "t2"] >>
    /\ sections = << [heading |-> "Unknown", text |-> <<"t1">>],
                     [heading |-> "Outlook", text |-> <<"t2">>] >>

\* C28: the records of a batch are a subset of its sentences, so whatever
\* items the model returns, the number of records built so far never
\* exceeds the number of sentences in the batches classified so far, and the
\* records of a document never outnumber its candidates.
C28_RecordsBoundedByBatch ==
    (pc \in {"sleep", "call", "backoff", "returned"} /\ batches # <<>>) =>
        LET done == { k \in 1..Len(batches) : k < batch_num }
            Sizes[k \in 0..Len(batches)] ==
                IF k = 0 THEN 0
                ELSE Sizes[k - 1] + (IF k \in done THEN Len(batches[k]) ELSE 0)
        IN  /\ Len(results) <= Sizes[Len(batches)]
            /\ Len(results) <= Len(candidates)

\* C29: persisting does not change the records handed to the caller: the
\* stored copy has each text cut to 400 characters, and every record of the
\* items list process_file returns is the record the extractor created, with
\* its full text.
C29_PersistKeepsRecords ==
    pc = "pf_done" =>
        LET stored == persisted[Len(persisted)].items
        IN  /\ pf_return.items = run_result.v
            /\ Len(stored) = Len(run_result.v)
            /\ \A i \in 1..Len(stored) :
                   /\ Len(stored[i].text[1]) <= StoredTextMax
                   /\ stored[i].sentence_id = run_result.v[i].sentence_id
                   /\ stored[i].score = run_result.v[i].score

C29_Witness ==
    /\ pc = "pf_done"
    /\ Len(pf_return.items) = 2
    /\ Len(pf_return.items[2].text) = 2
    /\ Len(pf_return.items[2].text[2]) = 512
    /\ Len(persisted[1].items[2].text[1]) = 400

\* C30: process_file leaves a caller-supplied local document in place: when
\* file_url names an existing local file, the file still exists once the
\* cleanup has run and process_file has returned.
C30_LocalFileKept ==
    (file_url = "local.pdf" /\ pc \in {"persist", "pf_done"}) => "local.pdf" \in fs

====
